---- MODULE Spec2Model ----
(***************************************************************************)
(* Model of lolrmmciscoumbrella.py: the download/classify/persist step,    *)
(* the Umbrella token request, the per-domain volume query with its 429    *)
(* retry, and main()'s sequential loop.  Text is modelled as tuples of     *)
(* one-character strings so that strip(), lower(), split('.'), int() and   *)
(* sorted() are computed, not assumed.                                     *)
(***************************************************************************)
EXTENDS Integers, Sequences, FiniteSets, TLC

VARIABLES
    pc,                       \* position of main() / of the classification loop
    api_key, api_secret,      \* UMBRELLA_API_KEY, UMBRELLA_API_SECRET (static configuration)
    cleaned_domains_set,      \* download_process_and_save_domains: cleaned_domains_set
    misc_domains_set,         \* download_process_and_save_domains: misc_domains_set
    parsed_domain_count,      \* download_process_and_save_domains: parsed_domain_count
    original_file,            \* original_rmm_domains.csv written in this run
    cleaned_file,             \* cleaned_rmm_domains.csv: [exists, rows]
    misc_file,                \* misc_rmm_domains.csv: [exists, rows]
    domains_to_query,         \* main: domains_to_query
    access_token,             \* main: access_token ("" is Python's None / empty)
    i,                        \* main: index of the for loop over domains_to_query
    umbrella_results,         \* main: umbrella_results, in insertion order
    requests_issued,          \* per position of domains_to_query: volume GETs sent
    responses_429,            \* per position of domains_to_query: 429 responses received
    list_fetches,             \* GETs of GITHUB_CSV_URL sent in this run
    token_requests,           \* POSTs to UMBRELLA_AUTH_URL sent in this run
    sleeps,                   \* time.sleep calls (milliseconds) since the last volume GET
    halt,                     \* why main() stopped ("" while running)
    throttled,                \* the service answers every volume GET with 429
    last_response,            \* status and Retry-After of the latest volume response
    probe,                    \* volume-response runs: the response body under test
    probe_result,             \* volume-response runs: what check_domain_in_umbrella did
    observed_count,           \* main: observed_count of the summary
    expected_clean,           \* classification runs: entries built as plain domains
    expected_misc,            \* classification runs: entries built as IPv4 or wildcard
    rows_done                 \* classification runs: rows fed to the loop so far

vars == <<pc, api_key, api_secret, cleaned_domains_set, misc_domains_set,
          parsed_domain_count, original_file, cleaned_file, misc_file,
          domains_to_query, access_token, i, umbrella_results, requests_issued,
          responses_429, list_fetches, token_requests, sleeps, halt,
          throttled, last_response, probe, probe_result,
          observed_count, expected_clean, expected_misc, rows_done>>

classify_vars == <<cleaned_domains_set, misc_domains_set, parsed_domain_count,
                   expected_clean, expected_misc, rows_done>>

pipeline_vars == <<api_key, api_secret, original_file, cleaned_file, misc_file,
                   domains_to_query, access_token, i, umbrella_results,
                   requests_issued, responses_429, list_fetches, token_requests,
                   sleeps, halt, throttled, last_response, observed_count>>

probe_vars == <<probe, probe_result>>

-----------------------------------------------------------------------------
(* Bounds of the model.                                                    *)

MaxEntries == 3      \* rows fed to the classification loop (SpecClassify)
MaxRows == 2         \* data rows of the downloaded CSV (Spec)
MaxRetries == 1      \* 429 responses the service gives for one domain
MaxBodyLen == 3      \* items in the JSON list of a volume response

-----------------------------------------------------------------------------
(* Text: characters, str.strip, str.lower, str.split('.'), int().          *)

Digits == <<"0", "1", "2", "3", "4", "5", "6", "7", "8", "9">>

IsDigit(c) == \E k \in 1..10 : Digits[k] = c

DigitVal(c) == (CHOOSE k \in 1..10 : Digits[k] = c) - 1

\* str.isspace for the characters of the model
IsSpace(c) == c \in {" ", "\t"}

\* str.lower, one character
LowerChar(c) ==
    CASE c = "A" -> "a"
      [] c = "B" -> "b"
      [] c = "C" -> "c"
      [] c = "M" -> "m"
      [] c = "O" -> "o"
      [] OTHER -> c

\* str.upper, one character (used only to build raw entries)
UpperChar(c) ==
    CASE c = "a" -> "A"
      [] c = "b" -> "B"
      [] c = "c" -> "C"
      [] c = "m" -> "M"
      [] c = "o" -> "O"
      [] OTHER -> c

\* ord(), for the characters of the model
CodePoint(c) ==
    CASE c = "\t" -> 9
      [] c = " " -> 32
      [] c = "*" -> 42
      [] c = "+" -> 43
      [] c = "-" -> 45
      [] c = "." -> 46
      [] IsDigit(c) -> 48 + DigitVal(c)
      [] c = "A" -> 65
      [] c = "B" -> 66
      [] c = "C" -> 67
      [] c = "M" -> 77
      [] c = "O" -> 79
      [] c = "a" -> 97
      [] c = "b" -> 98
      [] c = "c" -> 99
      [] c = "m" -> 109
      [] c = "o" -> 111

Lower(s) == [k \in 1..Len(s) |-> LowerChar(s[k])]

Upper(s) == [k \in 1..Len(s) |-> UpperChar(s[k])]

RECURSIVE LStrip(_)
LStrip(s) == IF s # <<>> /\ IsSpace(Head(s)) THEN LStrip(Tail(s)) ELSE s

RECURSIVE RStrip(_)
RStrip(s) ==
    IF s # <<>> /\ IsSpace(s[Len(s)]) THEN RStrip(SubSeq(s, 1, Len(s) - 1)) ELSE s

Strip(s) == RStrip(LStrip(s))

\* s.split('.')
RECURSIVE SplitDot(_)
SplitDot(s) ==
    IF \A k \in 1..Len(s) : s[k] # "."
    THEN <<s>>
    ELSE LET d == CHOOSE k \in 1..Len(s) :
                      s[k] = "." /\ \A j \in 1..(k - 1) : s[j] # "."
         IN  <<SubSeq(s, 1, d - 1)>> \o SplitDot(SubSeq(s, d + 1, Len(s)))

\* int(digits, 10) for a non-empty string of decimal digits
RECURSIVE DecimalValue(_)
DecimalValue(s) ==
    IF s = <<>> THEN 0
    ELSE 10 * DecimalValue(SubSeq(s, 1, Len(s) - 1)) + DigitVal(s[Len(s)])

AllDigits(s) == \A k \in 1..Len(s) : IsDigit(s[k])

-----------------------------------------------------------------------------
(* is_valid_ipv4: ipaddress.IPv4Address(address_string) raising            *)
(* AddressValueError or not.                                               *)

\* faulty variant of parse_octet: the range check is missing (256..999 pass)
parse_octet_no_range(octet_str) ==
    /\ octet_str # <<>>
    /\ AllDigits(octet_str)
    /\ Len(octet_str) <= 3
    /\ ~(octet_str # <<"0">> /\ octet_str[1] = "0")

\* ipaddress._parse_octet does not raise ValueError
parse_octet(octet_str) ==
    /\ octet_str # <<>>
    /\ AllDigits(octet_str)
    /\ Len(octet_str) <= 3
    /\ ~(octet_str # <<"0">> /\ octet_str[1] = "0")
    /\ DecimalValue(octet_str) <= 255

is_valid_ipv4(address_string) ==
    /\ address_string # <<>>
    /\ LET octets == SplitDot(address_string)
       IN  /\ Len(octets) = 4
           /\ \A k \in 1..4 : parse_octet(octets[k])

Asterisk == "*"

contains_asterisk(domain_entry) ==
    \E k \in 1..Len(domain_entry) : domain_entry[k] = Asterisk

-----------------------------------------------------------------------------
(* The body of the loop `for row in reader` of                             *)
(* download_process_and_save_domains, on sets = [clean, misc, count].      *)

\* faulty variant of ClassifyRow: line 89 reads `if not is_ipv4_entry:`
ClassifyRowNoStarTest(sets, row) ==
    IF row = <<>> THEN sets
    ELSE LET domain_entry == Lower(Strip(row[1]))
         IN  IF domain_entry = <<>> THEN sets
             ELSE [clean |-> IF ~is_valid_ipv4(domain_entry)
                             THEN sets.clean \cup {domain_entry} ELSE sets.clean,
                   misc  |-> IF is_valid_ipv4(domain_entry) \/ contains_asterisk(domain_entry)
                             THEN sets.misc \cup {domain_entry} ELSE sets.misc,
                   count |-> sets.count + 1]

ClassifyRow(sets, row) ==
    IF row = <<>> THEN sets
    ELSE LET domain_entry == Lower(Strip(row[1]))
             is_ipv4_entry == is_valid_ipv4(domain_entry)
             has_asterisk == contains_asterisk(domain_entry)
         IN  IF domain_entry = <<>> THEN sets
             ELSE [clean |-> IF ~is_ipv4_entry /\ ~has_asterisk
                             THEN sets.clean \cup {domain_entry} ELSE sets.clean,
                   misc  |-> IF is_ipv4_entry \/ has_asterisk
                             THEN sets.misc \cup {domain_entry} ELSE sets.misc,
                   count |-> sets.count + 1]

\* the whole loop over the rows after the header
RECURSIVE ClassifyRows(_, _)
ClassifyRows(sets, rows) ==
    IF rows = <<>> THEN sets
    ELSE ClassifyRows(ClassifyRow(sets, Head(rows)), Tail(rows))

NoSets == [clean |-> {}, misc |-> {}, count |-> 0]

-----------------------------------------------------------------------------
(* Raw entries of the source list.  An entry is built from its dot-        *)
(* separated labels, so what it is (a dotted quad of decimal octets, a     *)
(* wildcard pattern, a blank) is known from how it was built, not from     *)
(* parsing it back.                                                        *)

L0 == <<"0">>
L1 == <<"1">>
L01 == <<"0", "1">>
L255 == <<"2", "5", "5">>
L256 == <<"2", "5", "6">>
L999 == <<"9", "9", "9">>
L1000 == <<"1", "0", "0", "0">>
L1s1 == <<"1", " ", "1">>
La == <<"a">>
Lb == <<"b">>
Lcom == <<"c", "o", "m">>
Lstar == <<"*">>
Lastar == <<"a", "*">>
Lnone == <<>>

RECURSIVE Join(_)
Join(labels) ==
    IF Len(labels) = 1 THEN labels[1]
    ELSE labels[1] \o <<".">> \o Join(Tail(labels))

OctetLabels == {L0, L01, L255, L256, L1000, L1s1, Lnone, La, Lstar}

EntryLabels ==
    {<<Lnone>>, <<La, Lcom>>, <<Lb, Lcom>>, <<Lstar>>, <<Lstar, Lb, Lcom>>,
     <<Lastar, Lcom>>, <<L1>>, <<L1, L1, L1>>, <<L1, L1, L1, L1, L1>>,
     <<L999, L999, L999, L999>>, <<L255, L255, L255, L255>>}
    \cup {<<o, L1, L1, L1>> : o \in OctetLabels}
    \cup {<<L1, L1, L1, o>> : o \in OctetLabels \ {Lnone, La}}

\* the canonical decimal rendering of 0..255
Decimal(n) ==
    IF n < 10 THEN <<Digits[n + 1]>>
    ELSE IF n < 100 THEN <<Digits[(n \div 10) + 1], Digits[(n % 10) + 1]>>
    ELSE <<Digits[(n \div 100) + 1], Digits[((n \div 10) % 10) + 1], Digits[(n % 10) + 1]>>

DecimalOctets == {Decimal(n) : n \in 0..255}

BuiltAsIPv4(labels) ==
    Len(labels) = 4 /\ \A k \in 1..4 : labels[k] \in DecimalOctets

BuiltWithWildcard(labels) ==
    \E k \in 1..Len(labels) : \E j \in 1..Len(labels[k]) : labels[k][j] = "*"

BuiltBlank(labels) == labels = <<Lnone>>

\* how the entry appears in the file: as built, in upper case inside
\* whitespace, followed by a second column, or on an empty line
RowForms == {"plain", "padded_upper", "two_columns", "empty_line"}

RowOf(labels, form) ==
    CASE form = "plain" -> <<Join(labels)>>
      [] form = "padded_upper" -> <<<<" ">> \o Upper(Join(labels)) \o <<"\t", " ">>>>
      [] form = "two_columns" -> <<Join(labels), Join(<<L1, L1, L1, L1>>)>>
      [] form = "empty_line" -> <<>>

-----------------------------------------------------------------------------
(* Values main() holds before it has run.                                  *)

KEY_PLACEHOLDER == "YOUR_UMBRELLA_API_KEY_HERE"
SECRET_PLACEHOLDER == "YOUR_UMBRELLA_API_SECRET_HERE"

NoFile == [saved |-> FALSE, rows |-> <<>>]

NoHeader == [present |-> FALSE, text |-> <<>>]

NoResponse == [status |-> 0, retry_after |-> NoHeader]

NoOutcome == [kind |-> "none", observed |-> FALSE, detail |-> "", total |-> 0, sleep_s |-> 0]

PipelineIdle ==
    /\ original_file = FALSE
    /\ cleaned_file = NoFile
    /\ misc_file = NoFile
    /\ domains_to_query = <<>>
    /\ access_token = ""
    /\ i = 0
    /\ umbrella_results = <<>>
    /\ requests_issued = <<>>
    /\ responses_429 = <<>>
    /\ list_fetches = 0
    /\ token_requests = 0
    /\ sleeps = <<>>
    /\ halt = ""
    /\ last_response = NoResponse
    /\ observed_count = 0

NoProbe == [shape |-> "none", kinds |-> <<>>]

ProbeIdle ==
    /\ probe = NoProbe
    /\ probe_result = NoOutcome

-----------------------------------------------------------------------------
(* SpecClassify: the classification loop fed one row at a time.            *)

InitClassify ==
    /\ pc = "classify"
    /\ api_key = KEY_PLACEHOLDER
    /\ api_secret = SECRET_PLACEHOLDER
    /\ cleaned_domains_set = {}
    /\ misc_domains_set = {}
    /\ parsed_domain_count = 0
    /\ expected_clean = {}
    /\ expected_misc = {}
    /\ rows_done = 0
    /\ throttled = FALSE
    /\ PipelineIdle
    /\ ProbeIdle

ClassifyStep ==
    /\ pc = "classify"
    /\ rows_done < MaxEntries
    /\ \E labels \in EntryLabels, form \in RowForms :
         LET sets == ClassifyRow([clean |-> cleaned_domains_set,
                                  misc |-> misc_domains_set,
                                  count |-> parsed_domain_count],
                                 RowOf(labels, form))
             counted == form # "empty_line" /\ ~BuiltBlank(labels)
             to_misc == BuiltAsIPv4(labels) \/ BuiltWithWildcard(labels)
         IN  /\ cleaned_domains_set' = sets.clean
             /\ misc_domains_set' = sets.misc
             /\ parsed_domain_count' = sets.count
             /\ expected_clean' = IF counted /\ ~to_misc
                                  THEN expected_clean \cup {Join(labels)}
                                  ELSE expected_clean
             /\ expected_misc' = IF counted /\ to_misc
                                 THEN expected_misc \cup {Join(labels)}
                                 ELSE expected_misc
    /\ rows_done' = rows_done + 1
    /\ UNCHANGED <<pc, pipeline_vars, probe_vars>>

NextClassify == ClassifyStep

SpecClassify == InitClassify /\ [][NextClassify]_vars

-----------------------------------------------------------------------------
(* Claims about the classification.                                        *)

\* C1: after any sequence of raw entries the clean set and the misc set are
\* disjoint, every entry that is non-empty after trimming and lowercasing
\* is in one of them (none is dropped), and the blank entry is in neither.
C1_DisjointPartition ==
    /\ cleaned_domains_set \cap misc_domains_set = {}
    /\ cleaned_domains_set \cup misc_domains_set = expected_clean \cup expected_misc
    /\ <<>> \notin cleaned_domains_set \cup misc_domains_set

C1_Witness ==
    /\ rows_done = MaxEntries
    /\ parsed_domain_count = MaxEntries
    /\ cleaned_domains_set # {}
    /\ misc_domains_set # {}

Quad256 == <<"2", "5", "6", ".", "1", ".", "1", ".", "1">>
Quad999 == <<"9", "9", "9", ".", "9", "9", "9", ".", "9", "9", "9", ".", "9", "9", "9">>
StarAlone == <<"*">>

\* C2: the trimmed, lowercased entry is in MiscEntries exactly when it is a
\* dotted quad of four decimal octets 0..255 or contains '*', and in
\* CleanDomains otherwise; 256.1.1.1 and 999.999.999.999 are Clean, '*'
\* alone is Misc, and entries differing only in case or surrounding
\* whitespace are one member.
C2_MiscIffIPv4OrWildcard ==
    /\ misc_domains_set = expected_misc
    /\ cleaned_domains_set = expected_clean
    /\ Quad256 \notin misc_domains_set
    /\ Quad999 \notin misc_domains_set
    /\ StarAlone \notin cleaned_domains_set

C2_Witness ==
    \/ Quad256 \in cleaned_domains_set /\ StarAlone \in misc_domains_set
    \/ Quad999 \in cleaned_domains_set /\ parsed_domain_count = 2
                                       /\ Cardinality(cleaned_domains_set) = 1

-----------------------------------------------------------------------------
(* Volume responses.  A response is a transport failure or an HTTP         *)
(* response [status, retry_after, body]; a body is undecodable or a JSON   *)
(* value [t, items], an item is [t, elems], an element is [t, n].          *)

DEFAULT_RETRY_AFTER == 60      \* response.headers.get("Retry-After", 60)
PACING_MS == 150               \* time.sleep(0.15)

Number(n) == [t |-> "number", n |-> n]
Text == [t |-> "string", n |-> 0]

ItemKinds == {"pair5", "pair0", "pair_text", "triple", "single", "scalar"}

\* the JSON item of each kind: [ts, 5], [ts, 0], [ts, "5"], [ts, 5, 5], [5], 5
ItemOf(kind) ==
    CASE kind = "pair5" -> [t |-> "list", elems |-> <<Number(1), Number(5)>>]
      [] kind = "pair0" -> [t |-> "list", elems |-> <<Number(1), Number(0)>>]
      [] kind = "pair_text" -> [t |-> "list", elems |-> <<Number(1), Text>>]
      [] kind = "triple" -> [t |-> "list", elems |-> <<Number(1), Number(5), Number(5)>>]
      [] kind = "single" -> [t |-> "list", elems |-> <<Number(5)>>]
      [] kind = "scalar" -> [t |-> "number", elems |-> <<>>]

KindLists == UNION {[1..n -> ItemKinds] : n \in 0..MaxBodyLen}

\* what response.json() gives: a JSON list, a JSON object, or an exception
\* (requests' JSONDecodeError is a RequestException in current releases
\* and a plain ValueError in older ones)
BodyShapes == {"list", "object", "raises_RequestException", "raises_ValueError"}

BodyOf(shape, kinds) ==
    [decode_error |-> CASE shape = "raises_RequestException" -> "RequestException"
                        [] shape = "raises_ValueError" -> "ValueError"
                        [] OTHER -> "none",
     t |-> IF shape = "list" THEN "list" ELSE "object",
     items |-> IF shape = "list" THEN [k \in 1..Len(kinds) |-> ItemOf(kinds[k])] ELSE <<>>]

NoBody == BodyOf("object", <<>>)

Header(text) == [present |-> TRUE, text |-> text]

\* Retry-After: absent, " 2", 0, -1, "a", 2.5
RetryAfterHeaders ==
    {NoHeader, Header(<<" ", "2">>), Header(<<"0">>), Header(<<"-", "1">>),
     Header(<<"a">>), Header(<<"2", ".", "5">>)}

\* int(str): surrounding whitespace and one sign are accepted
ParseInt(text) ==
    LET t == Strip(text)
        signed == t # <<>> /\ t[1] \in {"+", "-"}
        digits == IF signed THEN Tail(t) ELSE t
    IN  IF digits # <<>> /\ AllDigits(digits)
        THEN [ok |-> TRUE,
              value |-> IF signed /\ t[1] = "-" THEN 0 - DecimalValue(digits)
                        ELSE DecimalValue(digits)]
        ELSE [ok |-> FALSE, value |-> 0]

\* int(response.headers.get("Retry-After", 60)): [ok, value], ~ok is ValueError
retry_after_seconds(header) ==
    IF header.present THEN ParseInt(header.text)
    ELSE [ok |-> TRUE, value |-> DEFAULT_RETRY_AFTER]

\* faulty variant of WellFormedPair: `len(item) >= 2`
WellFormedPairAtLeastTwo(item) == item.t = "list" /\ Len(item.elems) >= 2

\* isinstance(item, list) and len(item) == 2
WellFormedPair(item) == item.t = "list" /\ Len(item.elems) = 2

\* 0 + item[1] raises TypeError for a count that is not a number
SumRaisesTypeError(items) ==
    \E k \in 1..Len(items) : WellFormedPair(items[k]) /\ items[k].elems[2].t # "number"

RECURSIVE SumCounts(_)
SumCounts(items) ==
    IF items = <<>> THEN 0
    ELSE (IF WellFormedPair(Head(items)) THEN Head(items).elems[2].n ELSE 0)
         + SumCounts(Tail(items))

Return(observed, detail, total) ==
    [kind |-> "return", observed |-> observed, detail |-> detail,
     total |-> total, sleep_s |-> 0]

Retry(seconds) ==
    [kind |-> "retry", observed |-> FALSE, detail |-> "", total |-> 0, sleep_s |-> seconds]

Raise(exception) ==
    [kind |-> "raise", observed |-> FALSE, detail |-> exception, total |-> 0, sleep_s |-> 0]

\* check_domain_in_umbrella, from the response to one GET up to the
\* recursive call, the return or the exception that leaves the function
check_response(resp) ==
    IF resp.kind = "transport"
    THEN Return(FALSE, "request_error", 0)
    ELSE IF resp.status = 429
    THEN LET ra == retry_after_seconds(resp.retry_after)
         IN  IF ~ra.ok \/ ra.value < 0
             THEN Return(FALSE, "json_decode_error", 0)
             ELSE Retry(ra.value)
    ELSE IF resp.status >= 400 /\ resp.status < 600
    THEN IF resp.status = 404
         THEN Return(FALSE, "not_found", 0)
         ELSE Return(FALSE, "http_error", 0)
    ELSE IF resp.body.decode_error = "RequestException"
    THEN Return(FALSE, "request_error", 0)
    ELSE IF resp.body.decode_error = "ValueError"
    THEN Return(FALSE, "json_decode_error", 0)
    ELSE LET data == resp.body
         IN  IF data.t = "list" /\ Len(data.items) > 0
             THEN IF SumRaisesTypeError(data.items)
                  THEN Raise("TypeError")
                  ELSE LET total_queries == SumCounts(data.items)
                       IN  IF total_queries > 0
                           THEN Return(TRUE, "observed", total_queries)
                           ELSE Return(FALSE, "all_zero", 0)
             ELSE IF data.t = "list" /\ Len(data.items) = 0
             THEN Return(FALSE, "no_volume", 0)
             ELSE Return(FALSE, "unexpected_format", 0)

HttpResponse(status, header, body) ==
    [kind |-> "http", status |-> status, retry_after |-> header, body |-> body]

TransportFailure ==
    [kind |-> "transport", status |-> 0, retry_after |-> NoHeader, body |-> NoBody]

\* the responses the service can give to one volume GET
VolumeResponses ==
    {TransportFailure}
    \cup {HttpResponse(429, h, NoBody) : h \in RetryAfterHeaders}
    \cup {HttpResponse(st, NoHeader, NoBody) : st \in {404, 500}}
    \cup {HttpResponse(200, NoHeader, BodyOf(shape, <<>>)) : shape \in BodyShapes \ {"list"}}
    \cup {HttpResponse(200, NoHeader, BodyOf("list", kinds)) : kinds \in KindLists}

-----------------------------------------------------------------------------
(* SpecVolume: check_domain_in_umbrella applied to one 2xx response.       *)

InitVolume ==
    /\ pc = "probe"
    /\ api_key = KEY_PLACEHOLDER
    /\ api_secret = SECRET_PLACEHOLDER
    /\ cleaned_domains_set = {}
    /\ misc_domains_set = {}
    /\ parsed_domain_count = 0
    /\ expected_clean = {}
    /\ expected_misc = {}
    /\ rows_done = 0
    /\ throttled = FALSE
    /\ PipelineIdle
    /\ \E shape \in BodyShapes, kinds \in KindLists :
         /\ shape # "list" => kinds = <<>>
         /\ probe = [shape |-> shape, kinds |-> kinds]
    /\ probe_result = NoOutcome

ProbeStep ==
    /\ pc = "probe"
    /\ probe_result' =
         check_response(HttpResponse(200, NoHeader, BodyOf(probe.shape, probe.kinds)))
    /\ pc' = "probed"
    /\ UNCHANGED <<probe, classify_vars, pipeline_vars>>

NextVolume == ProbeStep

SpecVolume == InitVolume /\ [][NextVolume]_vars

\* the counts the body was built with, over its two-element pairs
RECURSIVE BuiltTotal(_)
BuiltTotal(kinds) ==
    IF kinds = <<>> THEN 0
    ELSE (IF Head(kinds) = "pair5" THEN 5 ELSE 0) + BuiltTotal(Tail(kinds))

BuiltNumeric(kinds) == \A k \in 1..Len(kinds) : kinds[k] # "pair_text"

\* C9: for a 2xx response the query returns Observed=true exactly when the
\* body is a non-empty list whose counts, summed over the two-element pairs
\* only (other items skipped), total more than 0; an empty list, a list
\* summing to 0 and a non-list body each return Observed=false.  (A
\* two-element pair whose count is not a number makes the sum undefined;
\* there the query returns nothing, see C4.)
C9_ObservedIffPositiveTotal ==
    pc = "probed" =>
      /\ (probe_result.kind = "return" /\ probe_result.observed)
           <=> (/\ probe.shape = "list"
                /\ probe.kinds # <<>>
                /\ BuiltNumeric(probe.kinds)
                /\ BuiltTotal(probe.kinds) > 0)
      /\ (probe.shape # "list" \/ BuiltNumeric(probe.kinds))
           => probe_result.kind = "return"
      /\ (probe_result.kind = "return" /\ probe_result.observed)
           => probe_result.total = BuiltTotal(probe.kinds)

C9_Witness ==
    /\ pc = "probed"
    /\ probe.shape = "list"
    /\ probe.kinds = <<"pair5", "triple", "pair0">>
    /\ probe_result.observed
    /\ probe_result.total = 5

-----------------------------------------------------------------------------
(* Persistence: sorted(list(set)), csv.writer rows, read_domains_from_csv. *)

\* a < b for Python strings: code point order, a proper prefix is smaller
RECURSIVE LexLess(_, _)
LexLess(a, b) ==
    IF a = <<>> THEN b # <<>>
    ELSE IF b = <<>> THEN FALSE
    ELSE IF CodePoint(a[1]) < CodePoint(b[1]) THEN TRUE
    ELSE IF CodePoint(a[1]) > CodePoint(b[1]) THEN FALSE
    ELSE LexLess(Tail(a), Tail(b))

\* faulty variant of sorted_list: the order is descending
RECURSIVE unsorted_list(_)
unsorted_list(S) ==
    IF S = {} THEN <<>>
    ELSE LET last == CHOOSE x \in S : \A y \in S \ {x} : LexLess(y, x)
         IN  <<last>> \o unsorted_list(S \ {last})

\* sorted(list(S))
RECURSIVE sorted_list(_)
sorted_list(S) ==
    IF S = {} THEN <<>>
    ELSE LET first == CHOOSE x \in S : \A y \in S \ {x} : LexLess(x, y)
         IN  <<first>> \o sorted_list(S \ {first})

DomainHeader == <<<<"d", "o", "m", "a", "i", "n">>>>
EntryHeader == <<<<"e", "n", "t", "r", "y">>>>

\* the `with open(...)` blocks that write a table: the header row, then one
\* row per member in sorted order (only the header for an empty set);
\* written == FALSE is the IOError branch
write_csv(header, members, written) ==
    IF written
    THEN [saved |-> TRUE,
          rows |-> <<header>> \o [k \in 1..Cardinality(members) |-> <<sorted_list(members)[k]>>]]
    ELSE NoFile

RECURSIVE StrippedFirstColumns(_)
StrippedFirstColumns(rows) ==
    IF rows = <<>> THEN <<>>
    ELSE (IF Head(rows) # <<>> /\ Strip(Head(rows)[1]) # <<>>
          THEN <<Strip(Head(rows)[1])>> ELSE <<>>)
         \o StrippedFirstColumns(Tail(rows))

\* faulty variant of read_domains_from_csv: the header row is not skipped
read_domains_keeping_header(file) ==
    IF ~file.saved THEN <<>> ELSE StrippedFirstColumns(file.rows)

\* read_domains_from_csv on a table this run has just written and closed
read_domains_from_csv(file) ==
    IF ~file.saved THEN <<>>
    ELSE IF file.rows = <<>> THEN <<>>
    ELSE StrippedFirstColumns(Tail(file.rows))

-----------------------------------------------------------------------------
(* The downloaded source list of a pipeline run.                           *)

SourceHeader == <<Lcom>>

SourceLabels ==
    {<<La, Lcom>>, <<Lb, Lcom>>, <<L256, L1, L1, L1>>, <<Lstar, Lb, Lcom>>,
     <<L1, L1, L1, L1>>, <<Lnone>>}

SourceRows == {RowOf(labels, form) : labels \in SourceLabels,
                                     form \in {"plain", "padded_upper"}}

\* csv.reader over the decoded content: nothing at all, or a header row
\* followed by up to MaxRows rows
SourceContents ==
    {<<>>} \cup {<<SourceHeader>> \o rows :
                    rows \in UNION {[1..n -> SourceRows] : n \in 0..MaxRows}}

-----------------------------------------------------------------------------
(* get_umbrella_api_token and main()'s tests.                              *)

\* faulty variant of not_configured: `and` instead of `or`
not_configured_both(key, secret) ==
    key = KEY_PLACEHOLDER /\ secret = SECRET_PLACEHOLDER

\* the test of line 157
not_configured(key, secret) ==
    key = KEY_PLACEHOLDER \/ secret = SECRET_PLACEHOLDER

\* what the POST gives: an exception of requests, a non-2xx status, a JSON
\* object with a token, without one or with an empty one, a body that is
\* not JSON (a RequestException or a ValueError, by release of requests),
\* or JSON that is no object
TokenResponses ==
    {"transport_error", "http_error", "token", "no_token_field", "empty_token",
     "not_json_RequestException", "not_json_ValueError", "json_list"}

\* get_umbrella_api_token: [requested, token, raised]
get_umbrella_api_token(key, secret, resp) ==
    IF not_configured(key, secret)
    THEN [requested |-> FALSE, token |-> "", raised |-> FALSE]
    ELSE [requested |-> TRUE,
          token |-> IF resp = "token" THEN "bearer" ELSE "",
          raised |-> resp \in {"not_json_ValueError", "json_list"}]

\* faulty variant of nothing_to_query: the test of line 251 is missing
nothing_to_query_never(domains) == FALSE

\* `if not domains_to_query`
nothing_to_query(domains) == domains = <<>>

\* umbrella_results[domain] = {...}: a new key is appended, an old one keeps its place
DictSet(results, domain, observed, detail) ==
    LET entry == [domain |-> domain, observed |-> observed, detail |-> detail]
    IN  IF \E k \in 1..Len(results) : results[k].domain = domain
        THEN [k \in 1..Len(results) |->
                 IF results[k].domain = domain THEN entry ELSE results[k]]
        ELSE Append(results, entry)

RECURSIVE SumSeq(_)
SumSeq(q) == IF q = <<>> THEN 0 ELSE Head(q) + SumSeq(Tail(q))

VolumeRequests == SumSeq(requests_issued)

Keys(results) == [k \in 1..Len(results) |-> results[k].domain]

KeySet(results) == {results[k].domain : k \in 1..Len(results)}

-----------------------------------------------------------------------------
(* Spec: one run of main().                                                *)

Init ==
    /\ pc = "start"
    /\ api_key \in {KEY_PLACEHOLDER, "client-id"}
    /\ api_secret \in {SECRET_PLACEHOLDER, "client-secret"}
    /\ cleaned_domains_set = {}
    /\ misc_domains_set = {}
    /\ parsed_domain_count = 0
    /\ expected_clean = {}
    /\ expected_misc = {}
    /\ rows_done = 0
    /\ throttled = FALSE
    /\ PipelineIdle
    /\ ProbeIdle

Halt(reason) ==
    /\ pc' = "halted"
    /\ halt' = reason

\* os.makedirs raises OSError: download_process_and_save_domains returns None
MakedirsFails ==
    /\ pc = "start"
    /\ Halt("makedirs")
    /\ UNCHANGED <<api_key, api_secret, classify_vars, original_file, cleaned_file,
                   misc_file, domains_to_query, access_token, i, umbrella_results,
                   requests_issued, responses_429, list_fetches, token_requests,
                   sleeps, last_response, observed_count, probe_vars, throttled>>

\* requests.get / raise_for_status / decode raise: returns None
DownloadFails ==
    /\ pc = "start"
    /\ list_fetches' = list_fetches + 1
    /\ Halt("download")
    /\ UNCHANGED <<api_key, api_secret, classify_vars, original_file, cleaned_file,
                   misc_file, domains_to_query, access_token, i, umbrella_results,
                   requests_issued, responses_429, token_requests,
                   sleeps, last_response, observed_count, probe_vars, throttled>>

\* download_process_and_save_domains past the download, and main's test of
\* the returned path
DownloadProcessAndSave ==
    /\ pc = "start"
    /\ list_fetches' = list_fetches + 1
    /\ \E content \in SourceContents, wrote_original, wrote_cleaned, wrote_misc \in BOOLEAN :
         LET rows == IF content = <<>> THEN <<>> ELSE Tail(content)
             sets == ClassifyRows(NoSets, rows)
         IN  /\ cleaned_domains_set' = sets.clean
             /\ misc_domains_set' = sets.misc
             /\ parsed_domain_count' = sets.count
             /\ original_file' = wrote_original
             /\ cleaned_file' = write_csv(DomainHeader, sets.clean, wrote_cleaned)
             /\ misc_file' = write_csv(EntryHeader, sets.misc, wrote_misc)
    /\ IF cleaned_file'.saved
       THEN pc' = "read" /\ halt' = halt
       ELSE Halt("cleaned_not_saved")
    /\ UNCHANGED <<api_key, api_secret, expected_clean, expected_misc, rows_done,
                   domains_to_query, access_token, i, umbrella_results,
                   requests_issued, responses_429, token_requests,
                   sleeps, last_response, observed_count, probe_vars, throttled>>

\* main, step 2
ReadDomains ==
    /\ pc = "read"
    /\ domains_to_query' = read_domains_from_csv(cleaned_file)
    /\ requests_issued' = [k \in 1..Len(domains_to_query') |-> 0]
    /\ responses_429' = [k \in 1..Len(domains_to_query') |-> 0]
    /\ IF nothing_to_query(domains_to_query')
       THEN Halt("no_domains")
       ELSE pc' = "auth" /\ halt' = halt
    /\ UNCHANGED <<api_key, api_secret, classify_vars, original_file, cleaned_file,
                   misc_file, access_token, i, umbrella_results,
                   list_fetches, token_requests,
                   sleeps, last_response, observed_count, probe_vars, throttled>>

\* main, step 3
GetToken ==
    /\ pc = "auth"
    /\ \E resp \in TokenResponses :
         LET r == get_umbrella_api_token(api_key, api_secret, resp)
         IN  /\ token_requests' = token_requests + (IF r.requested THEN 1 ELSE 0)
             /\ access_token' = IF r.raised THEN access_token ELSE r.token
             /\ IF r.raised
                THEN pc' = "crashed" /\ halt' = "token_exception" /\ i' = i
                ELSE IF r.token = ""
                THEN Halt(IF r.requested THEN "no_token" ELSE "not_configured") /\ i' = i
                ELSE pc' = "query" /\ halt' = halt /\ i' = 1
    /\ UNCHANGED <<api_key, api_secret, classify_vars, original_file, cleaned_file,
                   misc_file, domains_to_query, umbrella_results,
                   requests_issued, responses_429, list_fetches,
                   sleeps, last_response, observed_count, probe_vars, throttled>>

\* every way one GET can go: the status and Retry-After received and what
\* check_domain_in_umbrella does with the response
VolumeExchanges ==
    {[status |-> resp.status, retry_after |-> resp.retry_after,
      out |-> check_response(resp)] : resp \in VolumeResponses}

\* the service answers at most MaxRetries times with 429 for one domain
MayAnswer(x) == x.status = 429 => responses_429[i] < MaxRetries

Received(x) ==
    /\ requests_issued' = [requests_issued EXCEPT ![i] = @ + 1]
    /\ responses_429' = [responses_429 EXCEPT ![i] = @ + (IF x.status = 429 THEN 1 ELSE 0)]
    /\ last_response' = [status |-> x.status, retry_after |-> x.retry_after]

\* one GET answered 429 with a usable Retry-After: sleep, then the recursive call
QueryRetry ==
    /\ pc = "query"
    /\ \E x \in VolumeExchanges :
         /\ MayAnswer(x)
         /\ x.out.kind = "retry"
         /\ Received(x)
         /\ sleeps' = <<1000 * x.out.sleep_s>>
    /\ UNCHANGED <<pc, api_key, api_secret, classify_vars, original_file, cleaned_file,
                   misc_file, domains_to_query, access_token, i, umbrella_results,
                   list_fetches, token_requests, halt, observed_count, probe_vars, throttled>>

\* faulty variant of QueryReturn: the time.sleep(0.15) of line 274 is missing
QueryReturnNoPacing ==
    /\ pc = "query"
    /\ \E x \in VolumeExchanges :
         /\ MayAnswer(x)
         /\ x.out.kind = "return"
         /\ Received(x)
         /\ umbrella_results' = DictSet(umbrella_results, domains_to_query[i],
                                        x.out.observed, x.out.detail)
    /\ sleeps' = <<>>
    /\ i' = i + 1
    /\ pc' = IF i = Len(domains_to_query) THEN "report" ELSE "query"
    /\ UNCHANGED <<api_key, api_secret, classify_vars, original_file, cleaned_file,
                   misc_file, domains_to_query, access_token,
                   list_fetches, token_requests, halt, observed_count, probe_vars, throttled>>

\* one GET whose handling returns: the result is recorded, main sleeps 0.15 s
\* and the loop moves on
QueryReturn ==
    /\ pc = "query"
    /\ \E x \in VolumeExchanges :
         /\ MayAnswer(x)
         /\ x.out.kind = "return"
         /\ Received(x)
         /\ umbrella_results' = DictSet(umbrella_results, domains_to_query[i],
                                        x.out.observed, x.out.detail)
    /\ sleeps' = <<PACING_MS>>
    /\ i' = i + 1
    /\ pc' = IF i = Len(domains_to_query) THEN "report" ELSE "query"
    /\ UNCHANGED <<api_key, api_secret, classify_vars, original_file, cleaned_file,
                   misc_file, domains_to_query, access_token,
                   list_fetches, token_requests, halt, observed_count, probe_vars, throttled>>

\* one GET whose handling raises an exception no handler catches: main ends
QueryRaise ==
    /\ pc = "query"
    /\ \E x \in VolumeExchanges :
         /\ MayAnswer(x)
         /\ x.out.kind = "raise"
         /\ Received(x)
    /\ sleeps' = <<>>
    /\ pc' = "crashed"
    /\ halt' = "query_exception"
    /\ UNCHANGED <<api_key, api_secret, classify_vars, original_file, cleaned_file,
                   misc_file, domains_to_query, access_token, i, umbrella_results,
                   list_fetches, token_requests, observed_count, probe_vars, throttled>>

\* main, step 5
Report ==
    /\ pc = "report"
    /\ observed_count' =
         Cardinality({k \in 1..Len(umbrella_results) : umbrella_results[k].observed})
    /\ pc' = "done"
    /\ UNCHANGED <<api_key, api_secret, classify_vars, original_file, cleaned_file,
                   misc_file, domains_to_query, access_token, i, umbrella_results,
                   requests_issued, responses_429, list_fetches, token_requests,
                   sleeps, halt, last_response, probe_vars, throttled>>

Next ==
    \/ MakedirsFails
    \/ DownloadFails
    \/ DownloadProcessAndSave
    \/ ReadDomains
    \/ GetToken
    \/ QueryRetry
    \/ QueryReturn
    \/ QueryRaise
    \/ Report

Spec == Init /\ [][Next]_vars

-----------------------------------------------------------------------------
(* SpecLive: a run of main() that keeps going (a single thread of control, *)
(* every request returning or failing), against a service that gives each  *)
(* domain at most MaxRetries 429s, or against one that answers every       *)
(* volume GET with 429 and a Retry-After the client can use.               *)

InitLive ==
    /\ pc = "start"
    /\ api_key \in {KEY_PLACEHOLDER, "client-id"}
    /\ api_secret \in {SECRET_PLACEHOLDER, "client-secret"}
    /\ cleaned_domains_set = {}
    /\ misc_domains_set = {}
    /\ parsed_domain_count = 0
    /\ expected_clean = {}
    /\ expected_misc = {}
    /\ rows_done = 0
    /\ throttled \in BOOLEAN
    /\ PipelineIdle
    /\ ProbeIdle

AtMost(n, cap) == IF n < cap THEN n ELSE cap

\* one GET answered 429 by the throttling service: sleep, then the recursive
\* call; nothing in check_domain_in_umbrella counts the attempts (the two
\* request counters of the model stop at MaxRetries + 1)
QueryThrottled ==
    /\ pc = "query"
    /\ throttled
    /\ \E x \in VolumeExchanges :
         /\ x.status = 429
         /\ x.out.kind = "retry"
         /\ requests_issued' =
              [requests_issued EXCEPT ![i] = AtMost(@ + 1, MaxRetries + 1)]
         /\ responses_429' =
              [responses_429 EXCEPT ![i] = AtMost(@ + 1, MaxRetries + 1)]
         /\ last_response' = [status |-> x.status, retry_after |-> x.retry_after]
         /\ sleeps' = <<1000 * x.out.sleep_s>>
    /\ UNCHANGED <<pc, api_key, api_secret, classify_vars, original_file, cleaned_file,
                   misc_file, domains_to_query, access_token, i, umbrella_results,
                   list_fetches, token_requests, halt, observed_count, probe_vars,
                   throttled>>

NextLive ==
    \/ MakedirsFails
    \/ DownloadFails
    \/ DownloadProcessAndSave
    \/ ReadDomains
    \/ GetToken
    \/ (~throttled /\ QueryRetry)
    \/ (~throttled /\ QueryReturn)
    \/ (~throttled /\ QueryRaise)
    \/ QueryThrottled
    \/ Report

SpecLive == InitLive /\ [][NextLive]_vars /\ WF_vars(NextLive)

-----------------------------------------------------------------------------
(* Claims about a run of main().                                           *)

\* the source list has been downloaded and classified
Classified == pc # "start" /\ halt \notin {"makedirs", "download"}

PlaceholderConfigured ==
    api_key = KEY_PLACEHOLDER \/ api_secret = SECRET_PLACEHOLDER

UnusableRetryAfter(header) == header.present /\ ~ParseInt(header.text).ok

\* C3: every 429 is followed by a wait of at least Retry-After and by exactly
\* one re-issue of the request for the same domain, so that the requests
\* issued for a domain number its 429 responses plus one, and any other
\* response ends the query.
C3_OneReissuePer429 ==
    /\ \A p \in 1..Len(umbrella_results) :
         requests_issued[p] = responses_429[p] + 1
    /\ last_response.status = 429 =>
         /\ pc = "query"
         /\ Len(umbrella_results) = i - 1
         /\ (~UnusableRetryAfter(last_response.retry_after) /\ last_response.retry_after.present)
              => sleeps = <<1000 * ParseInt(last_response.retry_after.text).value>>

\* C4: a per-domain query failure of any kind is recorded as Observed=false
\* and never aborts the batch: a run that obtained a token ends with exactly
\* one entry for every clean domain.
C4_FailureNeverAbortsBatch ==
    (access_token # "" /\ pc \in {"done", "crashed"}) =>
      /\ pc = "done"
      /\ KeySet(umbrella_results) = cleaned_domains_set
      /\ Len(umbrella_results) = Cardinality(cleaned_domains_set)

\* C5 as stated: with a placeholder key or secret no network call at all is
\* made in the run.
C5_NoNetworkCallAtAll ==
    PlaceholderConfigured =>
      list_fetches = 0 /\ token_requests = 0 /\ VolumeRequests = 0

\* C5 (amended): with a placeholder key or secret the token request and every
\* volume query are never sent and no token is held; a run that reaches
\* authentication halts there as not configured, after the source list has
\* been downloaded.
C5_NoUmbrellaCallWhenPlaceholder ==
    /\ PlaceholderConfigured =>
         /\ token_requests = 0
         /\ VolumeRequests = 0
         /\ access_token = ""
         /\ pc \in {"start", "read", "auth", "halted"}
         /\ halt \in {"", "makedirs", "download", "cleaned_not_saved",
                      "no_domains", "not_configured"}
    /\ halt = "not_configured" =>
         PlaceholderConfigured /\ list_fetches = 1 /\ domains_to_query # <<>>

C5_Witness ==
    /\ api_key # KEY_PLACEHOLDER
    /\ api_secret = SECRET_PLACEHOLDER
    /\ halt = "not_configured"
    /\ list_fetches = 1

\* C6: no volume query is issued unless a token was obtained earlier in the
\* run, the token request is made at most once, and with no clean domain the
\* run halts with neither a token request nor a volume query made.
C6_TokenBeforeQueries ==
    /\ VolumeRequests > 0 => (access_token # "" /\ token_requests = 1)
    /\ token_requests <= 1
    /\ (Classified /\ cleaned_domains_set = {}) =>
         /\ token_requests = 0
         /\ VolumeRequests = 0
         /\ pc \in {"read", "halted"}

C6_Witness ==
    /\ pc = "done"
    /\ token_requests = 1
    /\ VolumeRequests > Len(domains_to_query)

\* C7 as stated: no failure to write an artifact stops the run, and the
\* domains queried are CleanDomains whatever the writes did.
C7_NoWriteFailureIsFatal ==
    /\ Classified => halt # "cleaned_not_saved"
    /\ pc = "done" => KeySet(umbrella_results) = cleaned_domains_set

\* C7 (amended): a failure to write the original copy or the misc table does
\* not stop the run; a failure to write the clean-domain table halts it
\* before authentication with nothing queried, because the domains to query
\* are read back from that table; when the table was written the domains
\* queried are CleanDomains.
C7_OnlyCleanTableWriteIsFatal ==
    /\ Classified => ((halt = "cleaned_not_saved") <=> ~cleaned_file.saved)
    /\ halt = "cleaned_not_saved" => (token_requests = 0 /\ VolumeRequests = 0)
    /\ (Classified /\ cleaned_file.saved /\ cleaned_domains_set # {}) =>
         halt \notin {"cleaned_not_saved", "no_domains"}
    /\ pc \in {"auth", "query", "report", "done"} =>
         {domains_to_query[k] : k \in 1..Len(domains_to_query)} = cleaned_domains_set
    /\ pc = "done" => KeySet(umbrella_results) = cleaned_domains_set

C7_Witness ==
    /\ pc = "done"
    /\ ~original_file
    /\ ~misc_file.saved
    /\ Len(umbrella_results) = 2

\* the clean domains of the source lists, in ascending order
OrderedCleanDomains == <<Quad256, Join(<<La, Lcom>>), Join(<<Lb, Lcom>>)>>

Rank(domain) ==
    IF \E k \in 1..3 : OrderedCleanDomains[k] = domain
    THEN CHOOSE k \in 1..3 : OrderedCleanDomains[k] = domain
    ELSE 0

\* C8: queries are issued one domain at a time in strictly ascending order
\* of the clean-domain set: no request for a domain before the previous
\* domain's result is recorded, each clean domain queried as its own key
\* exactly once, and the result map's insertion order is that order.
C8_AscendingOneAtATime ==
    /\ \A j, k \in 1..Len(domains_to_query) :
         j < k => Rank(domains_to_query[j]) < Rank(domains_to_query[k])
    /\ Keys(umbrella_results) = SubSeq(domains_to_query, 1, Len(umbrella_results))
    /\ \A p \in 1..Len(requests_issued) :
         /\ requests_issued[p] > 0 => (p <= i /\ Len(umbrella_results) >= p - 1)
         /\ Len(umbrella_results) >= p => requests_issued[p] >= 1
    /\ pc \in {"query", "report", "done"} => Len(umbrella_results) = i - 1
    /\ pc = "done" =>
         /\ Keys(umbrella_results) = domains_to_query
         /\ KeySet(umbrella_results) = cleaned_domains_set
         /\ Len(umbrella_results) = Cardinality(cleaned_domains_set)

C8_Witness ==
    /\ pc = "done"
    /\ Keys(umbrella_results) = <<Quad256, Join(<<Lb, Lcom>>)>>
    /\ VolumeRequests = 4

\* C10: on a 429 whose Retry-After is absent or not a valid integer the
\* client waits 60 seconds and retries the same query; it does not end the
\* query with a result.
C10_DefaultWaitThenRetry ==
    (/\ last_response.status = 429
     /\ (~last_response.retry_after.present
         \/ UnusableRetryAfter(last_response.retry_after))) =>
      /\ pc = "query"
      /\ sleeps = <<1000 * DEFAULT_RETRY_AFTER>>
      /\ Len(umbrella_results) = i - 1
      /\ requests_issued[i] = responses_429[i]

\* C11 as stated: between any two consecutive volume requests of a run, the
\* second being the next domain's first request or a re-issue after a 429,
\* a pacing delay has elapsed, and the delay after a domain occurs only once
\* that domain's result has been recorded.
C11_PacingBetweenAnyTwoRequests ==
    /\ (pc = "query" /\ VolumeRequests > 0) =>
         \E k \in 1..Len(sleeps) : sleeps[k] = PACING_MS
    /\ sleeps = <<PACING_MS>> => (i >= 2 /\ Len(umbrella_results) = i - 1)

\* C11 (amended): the pacing delay is inserted once after each domain's
\* query has completed, retried or not, and only once its result has been
\* recorded, so it precedes the next domain's first request; a re-issue
\* after a 429 is preceded by the Retry-After wait alone (60 s when the
\* header is absent, possibly 0), not by the pacing delay.
C11_PacingAfterEachCompletedQuery ==
    /\ (pc = "query" /\ requests_issued[i] = 0) =>
         sleeps = IF i = 1 THEN <<>> ELSE <<PACING_MS>>
    /\ (pc = "query" /\ requests_issued[i] > 0) =>
         /\ last_response.status = 429
         /\ sleeps = <<1000 * (IF last_response.retry_after.present
                               THEN ParseInt(last_response.retry_after.text).value
                               ELSE DEFAULT_RETRY_AFTER)>>
         /\ sleeps # <<PACING_MS>>
    /\ pc \in {"report", "done"} => sleeps = <<PACING_MS>>
    /\ sleeps = <<PACING_MS>> =>
         /\ i >= 2
         /\ Len(umbrella_results) = i - 1
         /\ requests_issued[i - 1] >= 1

C11_Witness ==
    /\ pc = "query"
    /\ i = 2
    /\ requests_issued = <<2, 0>>
    /\ responses_429 = <<1, 0>>
    /\ sleeps = <<PACING_MS>>

Terminal == pc \in {"halted", "crashed", "done"}

\* the first fatal errors of main(): the list step returned None (lines
\* 245-247), nothing to query (251-253), no token (259-261)
FatalErrors ==
    {"makedirs", "download", "cleaned_not_saved", "no_domains",
     "not_configured", "no_token"}

RECURSIVE CountObserved(_)
CountObserved(results) ==
    IF results = <<>> THEN 0
    ELSE (IF Head(results).observed THEN 1 ELSE 0) + CountObserved(Tail(results))

SummaryOfEveryCleanDomain ==
    /\ Keys(umbrella_results) = domains_to_query
    /\ KeySet(umbrella_results) = cleaned_domains_set
    /\ observed_count = CountObserved(umbrella_results)
    /\ Len(umbrella_results) = Len(domains_to_query)

\* C12: a run that has ended either halted on the first fatal error
\* (directory creation, the download step, authentication, nothing to
\* query) or queried every clean domain and produced the summary whose
\* observed count is the number of recorded results with Observed=true and
\* whose total is the number of domains queried.
C12_HaltsOnFatalErrorOrCompletes ==
    Terminal =>
        \/ pc = "halted" /\ halt \in FatalErrors
        \/ pc = "crashed" /\ halt = "token_exception"
        \/ pc = "done" /\ SummaryOfEveryCleanDomain

\* C12, termination: against a service that gives each domain finitely many
\* 429 responses the run ends.
C12_EndsWhenThrottlingIsFinite == (~throttled) ~> Terminal

\* C12, no cap: against a service that answers every volume GET with 429
\* (and a Retry-After the client can use) the query never leaves its domain.
C12_RetriesWithoutCap ==
    [][(throttled /\ pc = "query") => (pc' = "query" /\ i' = i)]_vars

\* C12, summary: when the run completes, the summary is the claimed one.
C12_SummaryWhenDone == pc = "done" => SummaryOfEveryCleanDomain

====
